---- MODULE Spec2Model ----
(***************************************************************************)
(* DCA-Analysis-Bot: the trade-execution and idempotency core              *)
(* (crypto-dca.py), the config store it shares with the Discord bot        *)
(* (discord_bot.py) and the recommender (crypto_analysis.py).              *)
(*                                                                         *)
(* Values.  A "HH:MM" string is the pair <<h, m>> of the integers it       *)
(* parses to; a string that does not parse is a pair out of range or a     *)
(* tuple of another length.  A "%Y-%m-%d" date string is the ordinal of    *)
(* its day (the formatting is a bijection and the code only tests dates    *)
(* for equality).  A map entry is a function from field names to values:   *)
(* a dict entry has any of TIME, AMOUNT, BUY_ENABLED, LAST_BUY_DATE, a     *)
(* legacy scalar entry has the single pseudo-field SCALAR.                 *)
(***************************************************************************)
EXTENDS Integers, Sequences, FiniteSets, TLC

\* ------------------------------------------------------------------ bounds
MaxDay == 2
MaxCycles == 2
MaxRuns == 1
MaxEdits == 1
\* fragments in the fill history of one order
MaxFills == 2

\* --------------------------------------------------------- program constants
DEFAULT_DCA_AMOUNT == 20
DEFAULT_TARGET_TIME == <<7, 0>>
NoDate == 0
max_retries == 3
\* an AMOUNT is the integer a JSON number or numeric string denotes; the one
\* value NotANumber stands for every JSON value float() rejects ("abc", null, [])
NotANumber == 0 - 1
retry_delays == <<1, 3, 5>>

\* ------------------------------------------------------------ input domains
MapKeys == {"BTC_THB", "ETH_THB"}
\* seconds of the day at which the clock is observed: just before the window
\* of 07:00, its first second, and late in the day
Instants == <<24899, 24900, 40000>>

EmptyMap == [k \in {} |-> k]
Scalar(t) == [SCALAR |-> t]
DictEntry(t, a, en) == [TIME |-> t, AMOUNT |-> a, BUY_ENABLED |-> en]

IsDict(e) == "SCALAR" \notin DOMAIN e
Get(e, f, default) == IF f \in DOMAIN e THEN e[f] ELSE default
\* Python truthiness of an entry: {} and "" are falsy
Truthy(e) == IF IsDict(e) THEN DOMAIN e # {} ELSE e.SCALAR # <<>>

WithField(e, f, v) == [g \in DOMAIN e \cup {f} |-> IF g = f THEN v ELSE e[g]]
WithEntry(m, k, e) == [j \in DOMAIN m \cup {k} |-> IF j = k THEN e ELSE m[j]]

\* the maps the store may hold at the start
InitMaps ==
    { [k \in MapKeys |-> IF k = "BTC_THB" THEN b ELSE e] :
        b \in {DictEntry(<<7, 0>>, 800, TRUE), Scalar(<<7, 0>>),
                WithField(DictEntry(<<7, 0>>, 800, TRUE), "LAST_BUY_DATE", 1),
                DictEntry(<<7, 0>>, NotANumber, TRUE)},
        e \in {DictEntry(<<7, 0>>, 100, TRUE), DictEntry(<<7, 0>>, 100, FALSE)} }

\* --------------------------------------------------------- pure functions
\* base + "/USDT" where base = symbol.split('_')[0]
AltKey(symbol_thb) ==
    CASE symbol_thb = "BTC_THB" -> "BTC/USDT"
      [] symbol_thb = "ETH_THB" -> "ETH/USDT"
      [] symbol_thb = "SOL_THB" -> "SOL/USDT"
      [] OTHER -> "?/USDT"

\* (variant: the alternate spelling is tried first)
FoundKey_AltFirst(symbol_thb, target_map) ==
    IF AltKey(symbol_thb) \in DOMAIN target_map THEN AltKey(symbol_thb)
    ELSE symbol_thb

\* lines 88-96: the first key of keys_to_check present in the map, else the symbol
FoundKey(symbol_thb, target_map) ==
    IF symbol_thb \in DOMAIN target_map THEN symbol_thb
    ELSE IF AltKey(symbol_thb) \in DOMAIN target_map THEN AltKey(symbol_thb)
    ELSE symbol_thb

\* float(v): raises ValueError or TypeError on a value that is no number,
\* and is the number itself otherwise
FloatRaises(v) == v = NotANumber
ToFloat(v) == v

\* line 102: the only statement of get_config_for_symbol that can raise
ConfigRaises(symbol_thb, target_map) ==
    LET target_key == FoundKey(symbol_thb, target_map)
    IN  /\ target_key \in DOMAIN target_map
        /\ Truthy(target_map[target_key])
        /\ IsDict(target_map[target_key])
        /\ FloatRaises(Get(target_map[target_key], "AMOUNT", DEFAULT_DCA_AMOUNT))

\* (variant: a scalar entry is not used)
get_config_for_symbol_ScalarIgnored(symbol_thb, target_map) ==
    LET target_key == FoundKey(symbol_thb, target_map)
        found == target_key \in DOMAIN target_map
        dflt == [TIME |-> DEFAULT_TARGET_TIME, AMOUNT |-> DEFAULT_DCA_AMOUNT,
                 BUY_ENABLED |-> TRUE, LAST_BUY_DATE |-> NoDate, KEY |-> target_key]
    IN  IF found /\ Truthy(target_map[target_key])
        THEN LET e == target_map[target_key]
             IN  IF IsDict(e)
                 THEN [TIME |-> Get(e, "TIME", DEFAULT_TARGET_TIME),
                       AMOUNT |-> ToFloat(Get(e, "AMOUNT", DEFAULT_DCA_AMOUNT)),
                       BUY_ENABLED |-> Get(e, "BUY_ENABLED", TRUE),
                       LAST_BUY_DATE |-> Get(e, "LAST_BUY_DATE", NoDate),
                       KEY |-> target_key]
                 ELSE dflt
        ELSE dflt

\* the config returned when line 102 does not raise
get_config_for_symbol(symbol_thb, target_map) ==
    LET target_key == FoundKey(symbol_thb, target_map)
        found == target_key \in DOMAIN target_map
        dflt == [TIME |-> DEFAULT_TARGET_TIME, AMOUNT |-> DEFAULT_DCA_AMOUNT,
                 BUY_ENABLED |-> TRUE, LAST_BUY_DATE |-> NoDate, KEY |-> target_key]
    IN  IF found /\ Truthy(target_map[target_key])
        THEN LET e == target_map[target_key]
             IN  IF IsDict(e)
                 THEN [TIME |-> Get(e, "TIME", DEFAULT_TARGET_TIME),
                       AMOUNT |-> ToFloat(Get(e, "AMOUNT", DEFAULT_DCA_AMOUNT)),
                       BUY_ENABLED |-> Get(e, "BUY_ENABLED", TRUE),
                       LAST_BUY_DATE |-> Get(e, "LAST_BUY_DATE", NoDate),
                       KEY |-> target_key]
                 ELSE [dflt EXCEPT !.TIME = e.SCALAR]
        ELSE dflt

Abs(x) == IF x < 0 THEN 0 - x ELSE x
ParseOk(t) == Len(t) = 2 /\ t[1] \in 0..23 /\ t[2] \in 0..59
TargetSecs(t) == t[1] * 3600 + t[2] * 60

\* (variant: a scheduled time more than half a day ahead counts as yesterday's)
is_time_to_trade_Unwraps(target_time_str, nowSec) ==
    IF ~ParseOk(target_time_str) THEN FALSE
    ELSE LET d == nowSec - TargetSecs(target_time_str)
             diff == IF d < 0 - 43200 THEN d + 86400 ELSE d
         IN  IF Abs(diff) <= 300 THEN TRUE ELSE diff > 0

\* (variant: the window excludes its two ends)
is_time_to_trade_OpenWindow(target_time_str, nowSec) ==
    IF ~ParseOk(target_time_str) THEN FALSE
    ELSE LET diff == nowSec - TargetSecs(target_time_str)
         IN  IF Abs(diff) < 300 THEN TRUE ELSE diff > 0

is_time_to_trade(target_time_str, nowSec) ==
    IF ~ParseOk(target_time_str) THEN FALSE
    ELSE LET diff == nowSec - TargetSecs(target_time_str)
         IN  IF Abs(diff) <= 300 THEN TRUE ELSE diff > 0

\* main's selection of the enabled keys, in a fixed iteration order
KeyOrder == <<"BTC_THB", "ETH_THB">>
Enabled(target_map, k) ==
    IF IsDict(target_map[k]) THEN Get(target_map[k], "BUY_ENABLED", TRUE) ELSE TRUE
\* (variant: every key of the map is processed)
SymbolsToProcess_AllKeys(target_map) ==
    SelectSeq(KeyOrder, LAMBDA k : k \in DOMAIN target_map)
\* main, lines 472-486
SymbolsToProcess(target_map) ==
    SelectSeq(KeyOrder, LAMBDA k : k \in DOMAIN target_map /\ Enabled(target_map, k))

\* the filled quote amount and the received base quantity of an order detail
\* (variant: the reduction ends at the first fragment whose rate is not positive)
RECURSIVE SumFills_StopAtBad(_)
SumFills_StopAtBad(history) ==
    IF history = <<>> THEN 0
    ELSE LET t == Head(history)
         IN  IF t.rate > 0 THEN t.amount \div t.rate + SumFills_StopAtBad(Tail(history))
             ELSE 0

RECURSIVE SumFills(_)
SumFills(history) ==
    IF history = <<>> THEN 0
    ELSE LET t == Head(history)
         IN  (IF t.rate > 0 THEN t.amount \div t.rate ELSE 0) + SumFills(Tail(history))
\* (variant: the total requested is taken whenever it is not zero)
SpentThb_PreferTotal(order_data) ==
    IF Get(order_data, "total", 0) = 0 THEN Get(order_data, "filled", 0)
    ELSE Get(order_data, "total", 0)
\* lines 366-367: order_data.get('filled', 0), and order_data.get('total', 0) when that is 0
SpentThb(order_data) ==
    IF Get(order_data, "filled", 0) = 0 THEN Get(order_data, "total", 0)
    ELSE Get(order_data, "filled", 0)

\* order details the venue may report (amounts are multiples of the rates)
OrderDatas ==
    { [filled |-> 100, total |-> 100, history |-> << [amount |-> 100, rate |-> 50] >>],
      [filled |-> 0,   total |-> 100, history |-> << >>],
      [filled |-> 100, total |-> 100, history |-> << [amount |-> 100, rate |-> 0] >>] }

\* parameters of update_gist_log(trade_data, symbol="BTC") and the keywords
\* execute_trade passes besides the positional trade_data
update_gist_log_params == {"trade_data", "symbol"}
GistCallKeywords == {"symbol", "saved_to_ghostfolio"}
\* a Python call binds only if every keyword names a parameter
CallBinds(params, keywords) == keywords \subseteq params

\* ------------------------------------------------------------------- state
VARIABLES
    store,               \* the repository variable DCA_TARGET_MAP
    storeExists,         \* whether the variable exists in the store
    creds,               \* "ok", "no_token" or "no_repo": GIST_TOKEN / GITHUB_REPOSITORY
    now,                 \* [day, i]: the clock, i an index into Instants
    pc,                  \* position of the DCA process
    target_map,          \* main's in-memory map
    readMap,             \* the map as main parsed it at the start of the invocation
    symbols_to_process,
    idx,                 \* position of main's loop in symbols_to_process
    config,              \* the config resolved for the current symbol
    trade,               \* locals of the current execute_trade call
    slbd,                \* locals of the current save_last_buy_date call
    alerts,              \* send_discord_alert calls of the current execute_trade call
    exitStatus,          \* "none", "running", "ok" or "fail"
    cycles,              \* number of process invocations so far
    bidDay, bidCount,    \* per asset: last day a market buy was accepted, and how many that day
    filledDay,           \* per asset: last day a returned execute_trade had an accepted, filled order
    bot,                 \* the Discord bot's handle_update_dca in flight
    reco,                \* the recommender's copy of the map
    edits,               \* runs of the bot, the recommender and other editors so far
    slbdFailed,          \* save_last_buy_date has raised in this invocation
    run,                 \* the current invocation: the clock at its start, the symbols it sent a bid for
    fn,                  \* the last direct call of a function: name, arguments, result
    failedDay            \* per asset: last day a place-bid request failed

vars == <<store, storeExists, creds, now, pc, target_map, readMap, symbols_to_process, idx, config,
          trade, slbd, alerts, exitStatus, cycles, bidDay, bidCount, filledDay,
          bot, reco, edits, slbdFailed, run, fn, failedDay>>

NowSec == Instants[now.i]
\* datetime.now(SELECTED_TZ).strftime("%Y-%m-%d")
TodayStr == now.day

NoReq == [symbol |-> "", field |-> "", time |-> <<>>, amount |-> 0, enabled |-> ""]
NoMsg == [author |-> "", channel |-> "", is_mentioned |-> FALSE, text |-> ""]
NoConfig == [TIME |-> <<>>, AMOUNT |-> 0, BUY_ENABLED |-> FALSE, LAST_BUY_DATE |-> NoDate,
             KEY |-> ""]
NoTrade == [symbol |-> "", amount |-> 0, map_key |-> "", guard_day |-> NoDate,
            requests |-> 0, accepted |-> FALSE, bid_day |-> NoDate, got_info |-> FALSE,
            spent |-> 0, received |-> 0, rate |-> 0, fx_rate |-> 0, fx_sources |-> <<>>,
            ghostfolio_saved |-> FALSE, save_called |-> FALSE, exc |-> "none"]
NoSlbd == [symbol_key |-> "", date_str |-> NoDate, new_json |-> EmptyMap, attempt |-> 0,
           last_error |-> "none", sleeps |-> <<>>, patches |-> 0, posts |-> 0,
           result |-> "none"]
NoRun == [start |-> [day |-> 0, i |-> 1], attempted |-> {}]
NoCall == [name |-> "none", args |-> <<>>, ret |-> <<>>]
BotIdle == [pc |-> "idle", map |-> EmptyMap, req |-> NoReq, reply |-> "none",
            CHANNEL_ID |-> "", ALLOWED_USERS |-> <<>>,
            msg |-> NoMsg, classified |-> FALSE, handler |-> "none"]
RecoIdle == [pc |-> "idle", map |-> EmptyMap]

\* the arguments of a call save_last_buy_date(target_map, symbol_key, date_str)
SaveCall(symbol_key, date_str) ==
    [NoSlbd EXCEPT !.symbol_key = symbol_key, !.date_str = date_str]

Alert(kind, sym, date) == [kind |-> kind, sym |-> sym, date |-> date]

InitRest ==
    /\ now = [day |-> 1, i |-> 1]
    /\ pc = "idle"
    /\ target_map = EmptyMap
    /\ readMap = EmptyMap
    /\ symbols_to_process = <<>>
    /\ idx = 1
    /\ config = NoConfig
    /\ trade = NoTrade
    /\ slbd = NoSlbd
    /\ alerts = <<>>
    /\ exitStatus = "none"
    /\ cycles = 0
    /\ bidDay = [k \in MapKeys |-> NoDate]
    /\ bidCount = [k \in MapKeys |-> 0]
    /\ filledDay = [k \in MapKeys |-> NoDate]
    /\ reco = RecoIdle
    /\ edits = 0
    /\ slbdFailed = FALSE
    /\ run = NoRun
    /\ fn = NoCall
    /\ failedDay = [k \in MapKeys |-> NoDate]

InitCommon ==
    /\ store \in InitMaps
    /\ storeExists = TRUE
    /\ bot = BotIdle
    /\ InitRest

Init ==
    /\ InitCommon
    /\ creds = "ok"

\* ------------------------------------------------------------------ clock
\* time passes between invocations and while the process sleeps (the settle
\* delay of execute_trade, the back-off of save_last_buy_date)
Tick ==
    /\ pc \in {"idle", "order_info", "backoff"}
    /\ \/ /\ now.i < Len(Instants)
          /\ now' = [now EXCEPT !.i = now.i + 1]
       \/ /\ now.i = Len(Instants)
          /\ now.day < MaxDay
          /\ now' = [day |-> now.day + 1, i |-> 1]
    /\ UNCHANGED <<store, storeExists, creds, pc, target_map, readMap, symbols_to_process, idx,
                   config, trade, slbd, alerts, exitStatus, cycles, bidDay, bidCount,
                   filledDay, bot, reco, edits, slbdFailed, run, fn, failedDay>>

\* the next day begins while no invocation is running
NextDay ==
    /\ pc = "idle"
    /\ now.day < MaxDay
    /\ now' = [day |-> now.day + 1, i |-> 1]
    /\ UNCHANGED <<store, storeExists, creds, pc, target_map, readMap, symbols_to_process, idx,
                   config, trade, slbd, alerts, exitStatus, cycles, bidDay, bidCount,
                   filledDay, bot, reco, edits, slbdFailed, run, fn, failedDay>>

\* ------------------------------------------------------- the DCA process
\* main, lines 460-488: the process reads the map it was started with
StartProcess(limit) ==
    /\ pc = "idle"
    /\ cycles < limit
    /\ cycles' = cycles + 1
    /\ target_map' = (IF storeExists THEN store ELSE EmptyMap)
    /\ readMap' = target_map'
    /\ symbols_to_process' = SymbolsToProcess(target_map')
    /\ idx' = 1
    /\ pc' = "loop"
    /\ exitStatus' = "running"
    /\ config' = NoConfig
    /\ trade' = NoTrade
    /\ slbd' = NoSlbd
    /\ alerts' = <<>>
    /\ slbdFailed' = FALSE
    /\ run' = [start |-> now, attempted |-> {}]
    /\ UNCHANGED <<store, storeExists, creds, now, bidDay, bidCount, filledDay, bot, reco,
                   edits, fn, failedDay>>

StartCycle == StartProcess(MaxCycles)

\* (variant: the day-stamp is not consulted)
ShouldExecute_NoGuard(cfg) ==
    /\ cfg.BUY_ENABLED
    /\ is_time_to_trade(cfg.TIME, NowSec)
\* main, lines 490-514: one iteration of the loop up to the call of execute_trade
ShouldExecute(cfg) ==
    /\ cfg.BUY_ENABLED
    /\ is_time_to_trade(cfg.TIME, NowSec)
    /\ cfg.LAST_BUY_DATE # TodayStr

MainNext ==
    /\ pc = "loop"
    /\ idx <= Len(symbols_to_process)
    /\ ~ConfigRaises(symbols_to_process[idx], target_map)
    /\ LET symbol == symbols_to_process[idx]
           cfg == get_config_for_symbol(symbol, target_map)
       IN  /\ IF ShouldExecute(cfg)
              THEN /\ config' = cfg
                   /\ trade' = [NoTrade EXCEPT !.symbol = symbol, !.amount = cfg.AMOUNT,
                                               !.map_key = cfg.KEY, !.guard_day = TodayStr]
                   /\ pc' = "place_bid"
                   /\ idx' = idx
              ELSE /\ config' = NoConfig
                   /\ trade' = NoTrade
                   /\ pc' = "loop"
                   /\ idx' = idx + 1
    /\ alerts' = <<>>
    /\ slbd' = NoSlbd
    /\ UNCHANGED <<store, storeExists, creds, now, target_map, readMap, symbols_to_process,
                   exitStatus, cycles, bidDay, bidCount, filledDay, bot, reco, edits,
                   slbdFailed, run, fn, failedDay>>

\* main, line 493: an exception of get_config_for_symbol is caught nowhere;
\* the interpreter prints the traceback and the process ends with status 1
MainCrash ==
    /\ pc = "loop"
    /\ idx <= Len(symbols_to_process)
    /\ ConfigRaises(symbols_to_process[idx], target_map)
    /\ pc' = "idle"
    /\ exitStatus' = "fail"
    /\ UNCHANGED <<store, storeExists, creds, now, target_map, readMap, symbols_to_process, idx,
                   config, trade, slbd, alerts, cycles, bidDay, bidCount, filledDay,
                   bot, reco, edits, slbdFailed, run, fn, failedDay>>

MainExit ==
    /\ pc = "loop"
    /\ idx > Len(symbols_to_process)
    /\ pc' = "idle"
    /\ exitStatus' = "ok"
    /\ UNCHANGED <<store, storeExists, creds, now, target_map, readMap, symbols_to_process, idx,
                   config, trade, slbd, alerts, cycles, bidDay, bidCount, filledDay,
                   bot, reco, edits, slbdFailed, run, fn, failedDay>>

\* (variant: a failed place-bid request is sent once more before giving up)
ET_PlaceBid_RetriesOnce ==
    /\ pc = "place_bid"
    /\ run' = [run EXCEPT !.attempted = @ \cup {trade.symbol}]
    /\ \E outcome \in {"transport_error", "venue_error", "accepted"} :
         IF outcome = "accepted"
         THEN /\ trade' = [trade EXCEPT !.requests = @ + 1, !.accepted = TRUE,
                                         !.bid_day = TodayStr]
              /\ bidDay' = [bidDay EXCEPT ![trade.symbol] = TodayStr]
              /\ bidCount' = [bidCount EXCEPT ![trade.symbol] =
                                 IF bidDay[trade.symbol] = TodayStr THEN @ + 1 ELSE 1]
              /\ pc' = "order_info"
              /\ UNCHANGED failedDay
         ELSE /\ trade' = [trade EXCEPT !.requests = @ + 2, !.exc = outcome]
              /\ failedDay' = [failedDay EXCEPT ![trade.symbol] = TodayStr]
              /\ pc' = "except"
              /\ UNCHANGED <<bidDay, bidCount>>
    /\ UNCHANGED <<store, storeExists, creds, now, target_map, readMap, symbols_to_process, idx,
                   config, slbd, alerts, exitStatus, cycles, filledDay, bot, reco, edits,
                   slbdFailed, fn>>

\* execute_trade, lines 324-336: place the market bid
ET_PlaceBid ==
    /\ pc = "place_bid"
    /\ run' = [run EXCEPT !.attempted = @ \cup {trade.symbol}]
    /\ \E outcome \in {"transport_error", "venue_error", "accepted"} :
         IF outcome = "accepted"
         THEN /\ trade' = [trade EXCEPT !.requests = @ + 1, !.accepted = TRUE,
                                         !.bid_day = TodayStr]
              /\ bidDay' = [bidDay EXCEPT ![trade.symbol] = TodayStr]
              /\ bidCount' = [bidCount EXCEPT ![trade.symbol] =
                                 IF bidDay[trade.symbol] = TodayStr THEN @ + 1 ELSE 1]
              /\ pc' = "order_info"
              /\ UNCHANGED failedDay
         ELSE /\ trade' = [trade EXCEPT !.requests = @ + 1, !.exc = outcome]
              /\ failedDay' = [failedDay EXCEPT ![trade.symbol] = TodayStr]
              /\ pc' = "except"
              /\ UNCHANGED <<bidDay, bidCount>>
    /\ UNCHANGED <<store, storeExists, creds, now, target_map, readMap, symbols_to_process, idx,
                   config, slbd, alerts, exitStatus, cycles, filledDay, bot, reco, edits,
                   slbdFailed, fn>>

\* execute_trade, lines 341-373: after the settle delay, fetch and reduce the order detail
ET_OrderInfo ==
    /\ pc = "order_info"
    /\ \/ /\ trade' = [trade EXCEPT !.exc = "order_info_error"]
          /\ pc' = "except"
       \/ \E od \in OrderDatas :
            LET spent_thb == SpentThb(od)
                received_amt == SumFills(od.history)
            IN  /\ trade' = [trade EXCEPT !.got_info = TRUE, !.spent = spent_thb,
                                          !.received = received_amt,
                                          !.rate = IF received_amt > 0
                                                   THEN spent_thb \div received_amt ELSE 0]
                /\ pc' = "fx"
    /\ UNCHANGED <<store, storeExists, creds, now, target_map, readMap, symbols_to_process, idx,
                   config, slbd, alerts, exitStatus, cycles, bidDay, bidCount, filledDay,
                   bot, reco, edits, slbdFailed, run, fn, failedDay>>

\* what one FX source may do: answer with a rate, answer without one, fail
FxOutcomes == {"rate", "no_rate", "error"}

\* gist_logger.get_thb_usd_rate, lines 20-44: the rate (3 stands for a rate a
\* source answered with, 0 for none) and the outcomes of the sources consulted
get_thb_usd_rate(primary, secondary) ==
    IF primary = "rate" THEN [rate |-> 3, sources |-> <<primary>>]
    ELSE IF secondary = "rate" THEN [rate |-> 3, sources |-> <<primary, secondary>>]
    ELSE [rate |-> 0, sources |-> <<primary, secondary>>]

\* execute_trade, lines 376-423: FX lookup (0 when both sources fail) and Ghostfolio logging
ET_FxGhostfolio ==
    /\ pc = "fx"
    /\ \E primary \in FxOutcomes, secondary \in FxOutcomes, saved \in BOOLEAN :
         LET fx == get_thb_usd_rate(primary, secondary)
         IN  /\ trade' = [trade EXCEPT !.fx_rate = fx.rate, !.fx_sources = fx.sources,
                                       !.ghostfolio_saved = saved]
             /\ alerts' = IF fx.rate = 0
                          THEN Append(alerts, Alert("fx_failed", trade.symbol, NoDate))
                          ELSE alerts
    /\ pc' = "gist"
    /\ UNCHANGED <<store, storeExists, creds, now, target_map, readMap, symbols_to_process, idx,
                   config, slbd, exitStatus, cycles, bidDay, bidCount, filledDay,
                   bot, reco, edits, slbdFailed, run, fn, failedDay>>

\* execute_trade, lines 425-453: the call of update_gist_log, the success
\* notification and the call of save_last_buy_date
ET_GistNotifySave ==
    /\ pc = "gist"
    /\ IF ~CallBinds(update_gist_log_params, GistCallKeywords)
       THEN /\ trade' = [trade EXCEPT !.exc = "TypeError"]
            /\ pc' = "except"
            /\ UNCHANGED <<alerts, slbd>>
       ELSE /\ alerts' = Append(alerts, Alert("success", trade.symbol, NoDate))
            /\ IF trade.map_key # "" /\ DOMAIN target_map # {}
               THEN /\ trade' = [trade EXCEPT !.save_called = TRUE]
                    /\ slbd' = SaveCall(trade.map_key, TodayStr)
                    /\ pc' = "slbd"
               ELSE /\ trade' = trade
                    /\ slbd' = slbd
                    /\ pc' = "returned"
    /\ UNCHANGED <<store, storeExists, creds, now, target_map, readMap, symbols_to_process, idx,
                   config, exitStatus, cycles, bidDay, bidCount, filledDay,
                   bot, reco, edits, slbdFailed, run, fn, failedDay>>

\* (variant: the handler only prints the error)
ET_Except_PrintOnly ==
    /\ pc = "except"
    /\ pc' = "returned"
    /\ UNCHANGED <<store, storeExists, creds, now, target_map, readMap, symbols_to_process, idx,
                   config, trade, slbd, alerts, exitStatus, cycles, bidDay, bidCount, filledDay,
                   bot, reco, edits, slbdFailed, run, fn, failedDay>>

\* execute_trade, lines 455-458: every Exception raised in the body is caught here
ET_Except ==
    /\ pc = "except"
    /\ alerts' = Append(alerts, Alert("failed", trade.symbol, NoDate))
    /\ pc' = "returned"
    /\ UNCHANGED <<store, storeExists, creds, now, target_map, readMap, symbols_to_process, idx,
                   config, trade, slbd, exitStatus, cycles, bidDay, bidCount, filledDay,
                   bot, reco, edits, slbdFailed, run, fn, failedDay>>

\* execute_trade returns to main's loop (line 512), which takes the next symbol
ET_Return ==
    /\ pc = "returned"
    /\ filledDay' = IF trade.accepted /\ trade.got_info /\ trade.received > 0
                    THEN [filledDay EXCEPT ![trade.symbol] = bidDay[trade.symbol]]
                    ELSE filledDay
    /\ idx' = idx + 1
    /\ pc' = "loop"
    /\ config' = NoConfig
    /\ trade' = NoTrade
    /\ slbd' = NoSlbd
    /\ alerts' = <<>>
    /\ UNCHANGED <<store, storeExists, creds, now, target_map, readMap, symbols_to_process,
                   exitStatus, cycles, bidDay, bidCount, bot, reco, edits, slbdFailed, run, fn,
                   failedDay>>

\* ------------------------------------------------- save_last_buy_date
\* (variant: a converted entry gets the default time)
UpdateLocal_DefaultTime(m, symbol_key, date_str) ==
    LET m1 == IF symbol_key \notin DOMAIN m THEN WithEntry(m, symbol_key, EmptyMap) ELSE m
        e == m1[symbol_key]
        e1 == IF ~IsDict(e) THEN DictEntry(DEFAULT_TARGET_TIME, DEFAULT_DCA_AMOUNT, TRUE) ELSE e
    IN  WithEntry(m1, symbol_key, WithField(e1, "LAST_BUY_DATE", date_str))

\* (variant: the target entry is built anew from its TIME)
UpdateLocal_Rebuild(m, symbol_key, date_str) ==
    LET m1 == IF symbol_key \notin DOMAIN m THEN WithEntry(m, symbol_key, EmptyMap) ELSE m
        e == m1[symbol_key]
        t == IF IsDict(e) THEN Get(e, "TIME", DEFAULT_TARGET_TIME) ELSE e.SCALAR
    IN  WithEntry(m1, symbol_key,
                  WithField(DictEntry(t, DEFAULT_DCA_AMOUNT, TRUE), "LAST_BUY_DATE", date_str))

\* lines 229-241: the update of the caller's map
UpdateLocal(m, symbol_key, date_str) ==
    LET m1 == IF symbol_key \notin DOMAIN m THEN WithEntry(m, symbol_key, EmptyMap) ELSE m
        e == m1[symbol_key]
        e1 == IF ~IsDict(e) THEN DictEntry(e.SCALAR, DEFAULT_DCA_AMOUNT, TRUE) ELSE e
    IN  WithEntry(m1, symbol_key, WithField(e1, "LAST_BUY_DATE", date_str))

\* (variant: a missing credential raises without a notification)
SLBD_Begin_RaiseOnly ==
    /\ pc = "slbd"
    /\ target_map' = UpdateLocal(target_map, slbd.symbol_key, slbd.date_str)
    /\ IF creds = "ok"
       THEN /\ slbd' = [slbd EXCEPT !.new_json = target_map']
            /\ pc' = "patch"
            /\ UNCHANGED slbdFailed
       ELSE /\ slbd' = [slbd EXCEPT !.new_json = target_map', !.result = "raised"]
            /\ slbdFailed' = TRUE
            /\ pc' = "except"
    /\ UNCHANGED <<store, storeExists, creds, now, readMap, symbols_to_process, idx, config, trade,
                   alerts, exitStatus, cycles, bidDay, bidCount, filledDay, bot, reco, edits,
                   run, fn, failedDay>>

\* (variant: the map is fetched again from the store before the update)
SLBD_Begin_Refetch ==
    /\ pc = "slbd"
    /\ target_map' = UpdateLocal(IF storeExists THEN store ELSE target_map,
                                 slbd.symbol_key, slbd.date_str)
    /\ IF creds = "ok"
       THEN /\ slbd' = [slbd EXCEPT !.new_json = target_map']
            /\ pc' = "patch"
            /\ UNCHANGED <<alerts, slbdFailed>>
       ELSE /\ slbd' = [slbd EXCEPT !.new_json = target_map', !.result = "raised"]
            /\ alerts' = Append(alerts, Alert("critical_" \o creds, "", NoDate))
            /\ slbdFailed' = TRUE
            /\ pc' = "except"
    /\ UNCHANGED <<store, storeExists, creds, now, readMap, symbols_to_process, idx, config,
                   trade, exitStatus, cycles, bidDay, bidCount, filledDay, bot, reco, edits,
                   run, fn, failedDay>>

\* (variant: only the token is checked)
SLBD_Begin_TokenOnly ==
    /\ pc = "slbd"
    /\ target_map' = UpdateLocal(target_map, slbd.symbol_key, slbd.date_str)
    /\ IF creds # "no_token"
       THEN /\ slbd' = [slbd EXCEPT !.new_json = target_map']
            /\ pc' = "patch"
            /\ UNCHANGED <<alerts, slbdFailed>>
       ELSE /\ slbd' = [slbd EXCEPT !.new_json = target_map', !.result = "raised"]
            /\ alerts' = Append(alerts, Alert("critical_" \o creds, "", NoDate))
            /\ slbdFailed' = TRUE
            /\ pc' = "except"
    /\ UNCHANGED <<store, storeExists, creds, now, readMap, symbols_to_process, idx, config,
                   trade, exitStatus, cycles, bidDay, bidCount, filledDay, bot, reco, edits,
                   run, fn, failedDay>>

\* lines 227-267: the local update, the serialisation and the credential checks
SLBD_Begin ==
    /\ pc = "slbd"
    /\ target_map' = UpdateLocal(target_map, slbd.symbol_key, slbd.date_str)
    /\ IF creds = "ok"
       THEN /\ slbd' = [slbd EXCEPT !.new_json = target_map']
            /\ pc' = "patch"
            /\ UNCHANGED <<alerts, slbdFailed>>
       ELSE /\ slbd' = [slbd EXCEPT !.new_json = target_map', !.result = "raised"]
            /\ alerts' = Append(alerts, Alert("critical_" \o creds, "", NoDate))
            /\ slbdFailed' = TRUE
            /\ pc' = "except"
    /\ UNCHANGED <<store, storeExists, creds, now, readMap, symbols_to_process, idx, config, trade,
                   exitStatus, cycles, bidDay, bidCount, filledDay, bot, reco, edits, run, fn,
                   failedDay>>

\* what the store may answer to the PATCH of the variable; "applied" is a
\* time-out of a request the store has carried out
PatchReplies == IF storeExists THEN {"204", "404", "500", "timeout", "applied"}
                ELSE {"404", "500", "timeout"}
PostReplies == IF storeExists THEN {"409", "timeout"} ELSE {"201", "409", "timeout"}

\* lines 275-298: one attempt, up to the reply to the PATCH, for the replies given
SLBD_PatchOf(replies) ==
    /\ pc = "patch"
    /\ \E r \in replies :
         /\ store' = IF r \in {"204", "applied"} THEN slbd.new_json ELSE store
         /\ slbd' = [slbd EXCEPT !.patches = @ + 1,
                                 !.last_error = CASE r \in {"204", "404"} -> @
                                                  [] r = "500" -> "HTTP"
                                                  [] OTHER -> "error",
                                 !.result = IF r = "204" THEN "ok" ELSE @]
         /\ pc' = CASE r = "204" -> "returned"
                    [] r = "404" -> "post"
                    [] OTHER -> "backoff"
    /\ UNCHANGED <<storeExists, creds, now, target_map, readMap, symbols_to_process, idx, config,
                   trade, alerts, exitStatus, cycles, bidDay, bidCount, filledDay, bot,
                   reco, edits, slbdFailed, run, fn, failedDay>>

SLBD_Patch == SLBD_PatchOf(PatchReplies)
\* the same where no reply is a rejection with another status, which takes the
\* steps a time-out takes
SLBD_PatchTransient == SLBD_PatchOf(PatchReplies \ {"500"})

\* (variant: a failed create uses up an attempt of its own)
SLBD_Post_CountsTwice ==
    /\ pc = "post"
    /\ \E r \in PostReplies :
         /\ store' = IF r = "201" THEN slbd.new_json ELSE store
         /\ storeExists' = IF r = "201" THEN TRUE ELSE storeExists
         /\ slbd' = [slbd EXCEPT !.posts = @ + 1,
                                 !.attempt = IF r = "201" THEN @ ELSE @ + 1,
                                 !.last_error = IF r = "201" THEN @
                                                ELSE "error",
                                 !.result = IF r = "201" THEN "ok" ELSE @]
         /\ pc' = IF r = "201" THEN "returned" ELSE "backoff"
    /\ UNCHANGED <<creds, now, target_map, readMap, symbols_to_process, idx, config,
                   trade, alerts, exitStatus, cycles, bidDay, bidCount, filledDay, bot,
                   reco, edits, slbdFailed, run, fn, failedDay>>

\* lines 282-291: the variable is missing, create it
SLBD_Post ==
    /\ pc = "post"
    /\ \E r \in PostReplies :
         /\ store' = IF r = "201" THEN slbd.new_json ELSE store
         /\ storeExists' = IF r = "201" THEN TRUE ELSE storeExists
         /\ slbd' = [slbd EXCEPT !.posts = @ + 1,
                                 !.last_error = IF r = "201" THEN @
                                                ELSE "error",
                                 !.result = IF r = "201" THEN "ok" ELSE @]
         /\ pc' = IF r = "201" THEN "returned" ELSE "backoff"
    /\ UNCHANGED <<creds, now, target_map, readMap, symbols_to_process, idx, config,
                   trade, alerts, exitStatus, cycles, bidDay, bidCount, filledDay, bot,
                   reco, edits, slbdFailed, run, fn, failedDay>>

\* (variant: the delay of the following attempt is slept)
SLBD_Retry_NextDelay ==
    /\ pc = "backoff"
    /\ slbd.attempt < max_retries - 1
    /\ slbd' = [slbd EXCEPT !.sleeps = Append(@, retry_delays[slbd.attempt + 2]),
                            !.attempt = @ + 1]
    /\ pc' = "patch"
    /\ UNCHANGED <<store, storeExists, creds, now, target_map, readMap, symbols_to_process,
                   idx, config, trade, alerts, exitStatus, cycles, bidDay, bidCount,
                   filledDay, bot, reco, edits, slbdFailed, run, fn, failedDay>>

\* lines 300-304: wait before the next attempt
SLBD_Retry ==
    /\ pc = "backoff"
    /\ slbd.attempt < max_retries - 1
    /\ slbd' = [slbd EXCEPT !.sleeps = Append(@, retry_delays[slbd.attempt + 1]),
                            !.attempt = @ + 1]
    /\ pc' = "patch"
    /\ UNCHANGED <<store, storeExists, creds, now, target_map, readMap, symbols_to_process, idx,
                   config, trade, alerts, exitStatus, cycles, bidDay, bidCount, filledDay,
                   bot, reco, edits, slbdFailed, run, fn, failedDay>>

\* (variant: the urgent notification is sent after every failed attempt)
SLBD_Exhausted_AlertEach ==
    /\ pc = "backoff"
    /\ slbd.attempt >= max_retries - 1
    /\ alerts' = alerts \o [i \in 1..slbd.patches |->
                               Alert("critical", slbd.symbol_key, slbd.date_str)]
    /\ slbd' = [slbd EXCEPT !.result = "raised"]
    /\ slbdFailed' = TRUE
    /\ pc' = "except"
    /\ UNCHANGED <<store, storeExists, creds, now, target_map, readMap, symbols_to_process,
                   idx, config, trade, exitStatus, cycles, bidDay, bidCount, filledDay,
                   bot, reco, edits, run, fn, failedDay>>

\* (variant: the last delay is slept before the failure is raised)
SLBD_Exhausted_SleepsFirst ==
    /\ pc = "backoff"
    /\ slbd.attempt >= max_retries - 1
    /\ alerts' = Append(alerts, Alert("critical", slbd.symbol_key, slbd.date_str))
    /\ slbd' = [slbd EXCEPT !.result = "raised",
                            !.sleeps = Append(@, retry_delays[slbd.attempt + 1])]
    /\ slbdFailed' = TRUE
    /\ pc' = "except"
    /\ UNCHANGED <<store, storeExists, creds, now, target_map, readMap, symbols_to_process, idx,
                   config, trade, exitStatus, cycles, bidDay, bidCount, filledDay,
                   bot, reco, edits, run, fn, failedDay>>

\* lines 306-319: all attempts failed
\* (variant: the local update is taken back when the retries are exhausted)
SLBD_Exhausted_Undo ==
    /\ pc = "backoff"
    /\ slbd.attempt >= max_retries - 1
    /\ alerts' = Append(alerts, Alert("critical", slbd.symbol_key, slbd.date_str))
    /\ slbd' = [slbd EXCEPT !.result = "raised"]
    /\ slbdFailed' = TRUE
    /\ target_map' = WithEntry(target_map, slbd.symbol_key, readMap[slbd.symbol_key])
    /\ pc' = "except"
    /\ UNCHANGED <<store, storeExists, creds, now, readMap, symbols_to_process, idx,
                   config, trade, exitStatus, cycles, bidDay, bidCount, filledDay,
                   bot, reco, edits, run, fn, failedDay>>

SLBD_Exhausted ==
    /\ pc = "backoff"
    /\ slbd.attempt >= max_retries - 1
    /\ alerts' = Append(alerts, Alert("critical", slbd.symbol_key, slbd.date_str))
    /\ slbd' = [slbd EXCEPT !.result = "raised"]
    /\ slbdFailed' = TRUE
    /\ pc' = "except"
    /\ UNCHANGED <<store, storeExists, creds, now, target_map, readMap, symbols_to_process, idx,
                   config, trade, exitStatus, cycles, bidDay, bidCount, filledDay,
                   bot, reco, edits, run, fn, failedDay>>

\* execute_trade entered from main's loop for the current symbol with an order
\* the venue accepted (main 505-512, execute_trade 321-453): main's guard reads
\* the date (line 505), the order is placed (323-337), the settle delay and the
\* requests of lines 342-433 pass, for each c of crossings with (c TRUE) or
\* without midnight in between, and step 8 reads the date again (line 451)
\* for the call of save_last_buy_date; the locals are those lines 363-372
\* compute from the order detail
Step8CallOf(crossings) ==
    /\ pc = "loop"
    /\ idx <= Len(symbols_to_process)
    /\ ~ConfigRaises(symbols_to_process[idx], target_map)
    /\ \E od \in OrderDatas, crossed \in crossings :
         LET symbol == symbols_to_process[idx]
             cfg == get_config_for_symbol(symbol, target_map)
             spent_thb == SpentThb(od)
             received_amt == SumFills(od.history)
         IN  /\ crossed => now.day < MaxDay
             /\ now' = IF crossed THEN [day |-> now.day + 1, i |-> 1] ELSE now
             /\ config' = cfg
             /\ trade' = [NoTrade EXCEPT !.symbol = symbol, !.amount = cfg.AMOUNT,
                                         !.map_key = cfg.KEY, !.guard_day = TodayStr,
                                         !.accepted = TRUE, !.bid_day = TodayStr,
                                         !.got_info = TRUE,
                                         !.spent = spent_thb, !.received = received_amt,
                                         !.rate = IF received_amt > 0
                                                  THEN spent_thb \div received_amt ELSE 0,
                                         !.save_called = TRUE]
             /\ slbd' = SaveCall(cfg.KEY, now'.day)
    /\ alerts' = << Alert("success", symbols_to_process[idx], NoDate) >>
    /\ pc' = "slbd"
    /\ UNCHANGED <<store, storeExists, creds, target_map, readMap, symbols_to_process, idx,
                   exitStatus, cycles, bidDay, bidCount, filledDay, bot, reco, edits,
                   slbdFailed, run, fn, failedDay>>

\* the call within one day
Step8Call == Step8CallOf({FALSE})
\* the call with or without midnight between the guard and step 8
Step8CallAnyTime == Step8CallOf(BOOLEAN)

StartRun == StartProcess(MaxRuns)

\* the repository variable is deleted by hand
StoreDelete ==
    /\ storeExists
    /\ edits < MaxEdits
    /\ edits' = edits + 1
    /\ storeExists' = FALSE
    /\ UNCHANGED <<store, creds, now, pc, target_map, readMap, symbols_to_process, idx, config,
                   trade, slbd, alerts, exitStatus, cycles, bidDay, bidCount, filledDay,
                   bot, reco, slbdFailed, run, fn, failedDay>>

\* ------------------------------------------------------ the Discord bot
\* update_dca params after intent classification: symbol, field and the value
\* of that field (time for TIME, amount for AMOUNT, enabled for BUY_ENABLED).
\* A TIME value is <<h, m>> for two digits, a colon and two digits,
\* <<h, m, "\n">> for the same followed by a newline, any other tuple for a
\* text of another shape.
BotReq(sym, field, t, a, en) ==
    [symbol |-> sym, field |-> field, time |-> t, amount |-> a, enabled |-> en]
BotRequests ==
    { BotReq("BTC_THB", "AMOUNT", <<>>, 600, ""),
      BotReq("BTC_THB", "AMOUNT", <<>>, 5, "") }

\* handle_update_dca, lines 352 and 360-367: upper case, a pair suffix removed,
\* "_THB" appended
NormSymbol(symbol) ==
    CASE symbol = "BTC_THB" -> "BTC_THB"
      [] symbol = "btc/usdt" -> "BTC_THB"
      [] symbol = "eth" -> "ETH_THB"
      [] symbol = "DOGE" -> "DOGE_THB"
      [] OTHER -> symbol

\* line 378: re.match(r"^\d{2}:\d{2}$", val_str); $ also matches before a
\* newline that ends the text
TimeMatches(t) == Len(t) = 2 \/ (Len(t) = 3 /\ t[3] = "\n")
\* lines 398 and 400
TrueWords == {"true", "yes", "on", "1", "enable", "enabled"}
FalseWords == {"false", "no", "off", "0", "disable", "disabled"}

\* handle_update_dca, lines 369-404
ValidUpdate(req) ==
    /\ req.field \in {"TIME", "AMOUNT", "BUY_ENABLED"}
    /\ req.field = "TIME" =>
          (TimeMatches(req.time) /\ req.time[1] \in 0..23 /\ req.time[2] \in 0..59)
    /\ req.field = "AMOUNT" =>
          (~FloatRaises(req.amount) /\ req.amount >= 20 /\ req.amount <= 1000)
    /\ req.field = "BUY_ENABLED" => req.enabled \in TrueWords \cup FalseWords

\* (variant: the entry is written with the three settings only)
ApplyUpdate_Rebuild(m, req) ==
    LET symbol == NormSymbol(req.symbol)
        e == CASE req.field = "TIME" -> WithField(m[symbol], "TIME", req.time)
               [] req.field = "AMOUNT" -> WithField(m[symbol], "AMOUNT", ToFloat(req.amount))
               [] OTHER -> WithField(m[symbol], "BUY_ENABLED", req.enabled \in TrueWords)
    IN  WithEntry(m, symbol,
                  [f \in DOMAIN e \cap {"TIME", "AMOUNT", "BUY_ENABLED"} |-> e[f]])

\* lines 376-404 and 428-430: the value stored is the text for TIME, the number
\* for AMOUNT, the boolean for BUY_ENABLED
ApplyUpdate(m, req) ==
    LET symbol == NormSymbol(req.symbol)
    IN  WithEntry(m, symbol,
              CASE req.field = "TIME" -> WithField(m[symbol], "TIME", req.time)
                [] req.field = "AMOUNT" -> WithField(m[symbol], "AMOUNT", ToFloat(req.amount))
                [] OTHER -> WithField(m[symbol], "BUY_ENABLED", req.enabled \in TrueWords))

\* a stored text that json.loads rejects
MalformedMap == [MALFORMED |-> TRUE]
\* get_repo_variable, lines 188-197: the stored text, or None when the request
\* fails or the variable is missing
FetchOutcomes == IF storeExists THEN {"value", "none"} ELSE {"none"}

\* handle_update_dca, lines 350-430: validation, the fetch of the map and the
\* update of the fetched copy; b is the bot before the call
handle_update_dca(b, params, raw) ==
    LET symbol == NormSymbol(params.symbol)
    IN  IF /\ ValidUpdate(params)
           /\ raw = "value"
           /\ store # MalformedMap
           /\ symbol \in DOMAIN store
           /\ IsDict(store[symbol])
        THEN [b EXCEPT !.pc = "fetched", !.map = ApplyUpdate(store, params),
                       !.req = params, !.reply = "none", !.handler = "update_dca"]
        ELSE [b EXCEPT !.pc = "idle", !.map = EmptyMap, !.req = params,
                       !.reply = "error", !.handler = "update_dca"]

\* one call of handle_update_dca up to its fetch
BotFetch ==
    /\ bot.pc = "idle"
    /\ edits < MaxEdits
    /\ edits' = edits + 1
    /\ \E req \in BotRequests, raw \in FetchOutcomes :
         bot' = handle_update_dca(bot, req, raw)
    /\ UNCHANGED <<store, storeExists, creds, now, pc, target_map, readMap, symbols_to_process, idx,
                   config, trade, slbd, alerts, exitStatus, cycles, bidDay, bidCount,
                   filledDay, reco, slbdFailed, run, fn, failedDay>>

\* handle_update_dca, lines 432-439, with update_repo_variable, lines 200-208
BotWrite ==
    /\ bot.pc = "fetched"
    /\ \E ok \in (IF storeExists THEN BOOLEAN ELSE {FALSE}) :
         /\ store' = IF ok THEN bot.map ELSE store
         /\ bot' = [bot EXCEPT !.pc = "idle", !.map = EmptyMap,
                               !.reply = IF ok THEN "updated" ELSE "error"]
    /\ UNCHANGED <<storeExists, creds, now, pc, target_map, readMap, symbols_to_process, idx,
                   config, trade, slbd, alerts, exitStatus, cycles, bidDay, bidCount,
                   filledDay, reco, edits, slbdFailed, run, fn, failedDay>>

\* the bot's own user, client.user
ClientUser == "bot"
\* line 538: a direct-message channel
IsDM(channel) == channel = "DM"

\* (variant: the user restriction is not applied)
OnMessagePasses_AnyUser(b, msg) ==
    /\ msg.author # ClientUser
    /\ b.CHANNEL_ID # "" => msg.channel = b.CHANNEL_ID
    /\ b.CHANNEL_ID = "" => (IsDM(msg.channel) \/ msg.is_mentioned)

\* on_message, lines 523-541: the message is the bot's own, from another
\* channel, from an unlisted user, or neither a mention nor a direct message
OnMessagePasses(b, msg) ==
    /\ msg.author # ClientUser
    /\ b.CHANNEL_ID # "" => msg.channel = b.CHANNEL_ID
    /\ b.ALLOWED_USERS # <<>> =>
          msg.author \in {b.ALLOWED_USERS[i] : i \in DOMAIN b.ALLOWED_USERS}
    /\ b.CHANNEL_ID = "" => (IsDM(msg.channel) \/ msg.is_mentioned)

Messages ==
    [author : {ClientUser, "alice", "mallory"}, channel : {"C1", "C2", "DM"},
     is_mentioned : BOOLEAN, text : {"", "cmd"}]
\* update_dca params the classifier may hand over (_validate_intent, lines
\* 119-128: symbol and field are non-empty texts, the value is present)
BotParams ==
    LET values ==
          { <<"TIME", <<23, 0>>, 0, "">>, <<"TIME", <<7>>, 0, "">>,
            <<"TIME", <<24, 0>>, 0, "">>, <<"TIME", <<23, 0, "\n">>, 0, "">>,
            <<"AMOUNT", <<>>, 600, "">>, <<"AMOUNT", <<>>, 19, "">>,
            <<"AMOUNT", <<>>, 1001, "">>, <<"AMOUNT", <<>>, NotANumber, "">>,
            <<"BUY_ENABLED", <<>>, 0, "off">>, <<"BUY_ENABLED", <<>>, 0, "maybe">>,
            <<"LAST_BUY_DATE", <<>>, 0, "">> }
    IN  { BotReq(sym, v[1], v[2], v[3], v[4]) : sym \in {"BTC_THB", "eth", "DOGE"}, v \in values }
\* classify_intent, lines 133-160: an action of ACTION_HANDLERS with its params, or "unknown"
Intents ==
    { [action |-> "update_dca", params |-> p] : p \in BotParams }
        \cup { [action |-> a, params |-> NoReq] : a \in {"status", "unknown"} }

\* on_message, lines 520-574, with the handler it dispatches to, up to the
\* handler's first request
OnMessage ==
    /\ bot.pc = "idle"
    /\ bot.msg = NoMsg
    /\ \E msg \in Messages :
         IF ~OnMessagePasses(bot, msg) THEN bot' = [bot EXCEPT !.msg = msg]
         ELSE IF msg.text = "" THEN bot' = [bot EXCEPT !.msg = msg, !.reply = "help"]
         ELSE \E intent \in Intents :
                LET b == [bot EXCEPT !.msg = msg, !.classified = TRUE]
                IN  CASE intent.action = "update_dca" ->
                           \E raw \in FetchOutcomes :
                               bot' = handle_update_dca(b, intent.params, raw)
                      [] intent.action = "status" ->
                           bot' = [b EXCEPT !.handler = "status", !.reply = "status"]
                      [] OTHER -> bot' = [b EXCEPT !.reply = "unknown"]
    /\ UNCHANGED <<store, storeExists, creds, now, pc, target_map, readMap, symbols_to_process, idx,
                   config, trade, slbd, alerts, exitStatus, cycles, bidDay, bidCount,
                   filledDay, reco, edits, slbdFailed, run, fn, failedDay>>

\* ------------------------------------------------------ the recommender
RecoSymbols == {"BTC/USDT"}
RecoTimes == {<<22, 0>>}
\* base + "_THB" where base = symbol.split('/')[0]
ThbKey(symbol) == IF symbol = "BTC/USDT" THEN "BTC_THB" ELSE "ETH_THB"

\* crypto_analysis main, lines 366-395
RecoTargetKey(m, symbol) ==
    IF ThbKey(symbol) \in DOMAIN m THEN ThbKey(symbol)
    ELSE IF symbol \in DOMAIN m THEN symbol
    ELSE ThbKey(symbol)
RecoUpdate(m, symbol, final_time) ==
    LET target_key == RecoTargetKey(m, symbol)
    IN  IF target_key \in DOMAIN m /\ IsDict(m[target_key])
        THEN WithEntry(m, target_key, WithField(m[target_key], "TIME", final_time))
        ELSE IF target_key \in DOMAIN m
        THEN WithEntry(m, target_key, Scalar(final_time))
        ELSE WithEntry(m, target_key, DictEntry(final_time, 800, TRUE))

\* crypto_analysis, lines 31-36: EXISTING_MAP is the map the run was started with
RecoStart ==
    /\ reco.pc = "idle"
    /\ edits < MaxEdits
    /\ edits' = edits + 1
    /\ reco' = [pc |-> "running", map |-> IF storeExists THEN store ELSE EmptyMap]
    /\ UNCHANGED <<store, storeExists, creds, now, pc, target_map, readMap, symbols_to_process, idx,
                   config, trade, slbd, alerts, exitStatus, cycles, bidDay, bidCount,
                   filledDay, bot, slbdFailed, run, fn, failedDay>>

\* crypto_analysis main, lines 357-414: the modified copy is exported as
\* best_time_map, which the workflow writes to DCA_TARGET_MAP
RecoExport ==
    /\ reco.pc = "running"
    /\ \E symbol \in RecoSymbols, final_time \in RecoTimes :
         LET m == RecoUpdate(reco.map, symbol, final_time)
         IN  store' = IF DOMAIN m # {} /\ storeExists THEN m ELSE store
    /\ reco' = RecoIdle
    /\ UNCHANGED <<storeExists, creds, now, pc, target_map, readMap, symbols_to_process, idx,
                   config, trade, slbd, alerts, exitStatus, cycles, bidDay, bidCount,
                   filledDay, bot, edits, slbdFailed, run, fn, failedDay>>

\* ------------------------------------------------------- specifications
Writers == BotFetch \/ BotWrite \/ RecoStart \/ RecoExport

Next ==
    \/ Tick
    \/ StartCycle
    \/ MainNext
    \/ MainCrash
    \/ MainExit
    \/ ET_PlaceBid
    \/ ET_OrderInfo
    \/ ET_FxGhostfolio
    \/ ET_GistNotifySave
    \/ ET_Except
    \/ ET_Return

Spec == Init /\ [][Next]_vars

\* save_last_buy_date in its calling context: the calls main's loop makes
\* through execute_trade's last step, with the other writers of the store
InitPersist ==
    /\ InitCommon
    /\ creds \in {"ok", "no_token", "no_repo"}

NextPersist ==
    \/ NextDay
    \/ StartRun
    \/ Step8Call
    \/ MainCrash
    \/ MainExit
    \/ SLBD_Begin
    \/ SLBD_PatchTransient
    \/ SLBD_Post
    \/ SLBD_Retry
    \/ SLBD_Exhausted
    \/ ET_Except
    \/ ET_Return
    \/ Writers
    \/ StoreDelete

SpecPersist == InitPersist /\ [][NextPersist]_vars

\* save_last_buy_date on its own, called from lines 435-453, against a store
\* that may answer anything and may lose the variable
NextSave ==
    \/ StartRun
    \/ Step8CallAnyTime
    \/ MainCrash
    \/ MainExit
    \/ SLBD_Begin
    \/ SLBD_Patch
    \/ SLBD_Post
    \/ SLBD_Retry
    \/ SLBD_Exhausted
    \/ ET_Except
    \/ ET_Return
    \/ StoreDelete

SpecSave == InitPersist /\ [][NextSave]_vars

\* the bot on its own: one message, under each setting of the two restrictions
InitBot ==
    /\ store \in InitMaps \cup {MalformedMap}
    /\ storeExists \in BOOLEAN
    /\ \E c \in {"", "C1"}, u \in {<<>>, <<"alice">>} :
         bot = [BotIdle EXCEPT !.CHANNEL_ID = c, !.ALLOWED_USERS = u]
    /\ creds = "ok"
    /\ InitRest

NextBot ==
    \/ OnMessage
    \/ BotWrite

SpecBot == InitBot /\ [][NextBot]_vars

\* ------------------------------------------- direct calls of the functions
\* one call of a function on its own, on inputs drawn from small sets
TimeStrs == {<<7, 0>>, <<0, 0>>, <<23, 55>>, <<25, 0>>, <<7>>, <<>>}
\* seconds of the day around the windows of 00:00, 07:00 and 23:55
DaySeconds == {0, 300, 301, 24899, 24900, 25200, 25500, 25501, 85799, 85800, 86399}

Call_is_time_to_trade ==
    /\ fn = NoCall
    /\ \E target_time_str \in TimeStrs, nowSec \in DaySeconds :
         fn' = [name |-> "is_time_to_trade", args |-> <<target_time_str, nowSec>>,
                ret |-> is_time_to_trade(target_time_str, nowSec)]
    /\ UNCHANGED <<store, storeExists, creds, now, pc, target_map, readMap, symbols_to_process,
                   idx, config, trade, slbd, alerts, exitStatus, cycles, bidDay, bidCount,
                   filledDay, bot, reco, edits, slbdFailed, run, failedDay>>

\* entries a map may hold: structured records (complete, partial, empty, with a
\* day-stamp, with an AMOUNT that is no number, zero or negative) and scalars
\* (a time, a string that is no time, the empty string)
PureEntries ==
    { DictEntry(<<9, 30>>, 800, FALSE),
      WithField(DictEntry(<<9, 30>>, 800, TRUE), "LAST_BUY_DATE", 1),
      [TIME |-> <<9, 30>>],
      EmptyMap,
      DictEntry(<<9, 30>>, NotANumber, TRUE),
      DictEntry(<<9, 30>>, 0, TRUE),
      DictEntry(<<9, 30>>, 0 - 50, TRUE),
      Scalar(<<21, 0>>), Scalar(<<25, 0>>), Scalar(<<>>) }
PureKeys == {"BTC_THB", "BTC/USDT"}
PureMaps ==
    UNION { [K -> PureEntries] : K \in SUBSET PureKeys }
PureSymbols == {"BTC_THB", "ETH_THB"}

Call_get_config_for_symbol ==
    /\ fn = NoCall
    /\ \E symbol_thb \in PureSymbols, m \in PureMaps :
         fn' = [name |-> "get_config_for_symbol", args |-> <<symbol_thb, m>>,
                ret |-> IF ConfigRaises(symbol_thb, m)
                        THEN [raised |-> TRUE, value |-> NoConfig]
                        ELSE [raised |-> FALSE, value |-> get_config_for_symbol(symbol_thb, m)]]
    /\ UNCHANGED <<store, storeExists, creds, now, pc, target_map, readMap, symbols_to_process,
                   idx, config, trade, slbd, alerts, exitStatus, cycles, bidDay, bidCount,
                   filledDay, bot, reco, edits, slbdFailed, run, failedDay>>

\* save_last_buy_date, lines 229-244: the update of the map and its serialisation
Call_UpdateLocal ==
    /\ fn = NoCall
    /\ \E m \in PureMaps, symbol_key \in PureKeys, date_str \in 1..MaxDay :
         fn' = [name |-> "save_last_buy_date", args |-> <<m, symbol_key, date_str>>,
                ret |-> UpdateLocal(m, symbol_key, date_str)]
    /\ UNCHANGED <<store, storeExists, creds, now, pc, target_map, readMap, symbols_to_process,
                   idx, config, trade, slbd, alerts, exitStatus, cycles, bidDay, bidCount,
                   filledDay, bot, reco, edits, slbdFailed, run, failedDay>>

\* fragments of a fill history: rate positive, zero and negative (amounts are
\* multiples of the rates)
Fragments ==
    { [amount |-> 100, rate |-> 50], [amount |-> 60, rate |-> 20],
      [amount |-> 100, rate |-> 0], [amount |-> 100, rate |-> 0 - 50] }
Histories == UNION { [1..n -> Fragments] : n \in 0..MaxFills }

\* execute_trade, lines 369-370: the reduction of the fill history
Call_received_amt ==
    /\ fn = NoCall
    /\ \E history \in Histories :
         fn' = [name |-> "received_amt", args |-> <<history>>, ret |-> SumFills(history)]
    /\ UNCHANGED <<store, storeExists, creds, now, pc, target_map, readMap, symbols_to_process,
                   idx, config, trade, slbd, alerts, exitStatus, cycles, bidDay, bidCount,
                   filledDay, bot, reco, edits, slbdFailed, run, failedDay>>

\* the quote amounts of an order detail: each of the two fields absent, zero or
\* a number
FillReports ==
    UNION { [K -> {0, 100, 150}] : K \in SUBSET {"filled", "total"} }

\* execute_trade, lines 366-367: the spent quote amount
Call_spent_thb ==
    /\ fn = NoCall
    /\ \E order_data \in FillReports :
         fn' = [name |-> "spent_thb", args |-> <<order_data>>, ret |-> SpentThb(order_data)]
    /\ UNCHANGED <<store, storeExists, creds, now, pc, target_map, readMap, symbols_to_process,
                   idx, config, trade, slbd, alerts, exitStatus, cycles, bidDay, bidCount,
                   filledDay, bot, reco, edits, slbdFailed, run, failedDay>>

NextPure ==
    \/ Call_is_time_to_trade
    \/ Call_get_config_for_symbol
    \/ Call_UpdateLocal
    \/ Call_received_amt
    \/ Call_spent_thb

SpecPure == Init /\ [][NextPure]_vars

\* ================================================================ claims
\* the day-stamp an entry of a map carries (NoDate when it carries none)
StampOf(m, k) ==
    IF k \in DOMAIN m /\ IsDict(m[k]) THEN Get(m[k], "LAST_BUY_DATE", NoDate) ELSE NoDate
Criticals == {i \in DOMAIN alerts : alerts[i].kind = "critical"}
RealFill == trade.accepted /\ trade.got_info /\ trade.received > 0
ZeroFill == trade.accepted /\ trade.got_info /\ trade.received = 0

\* C1: for every asset and every day, at most one market buy is accepted by
\* the exchange over any sequence of non-overlapping invocations of main.
C1_AtMostOneBuyPerDay == \A a \in MapKeys : bidCount[a] <= 1

\* C2: once an invocation's order for an asset has been accepted and filled on
\* a day, no later invocation on that day gets to place a bid for that asset.
C2_NoSecondOrderAfterSuccess ==
    pc = "place_bid" => filledDay[trade.symbol] # trade.guard_day

\* C3: when execute_trade returns after an accepted order with a real fill
\* (received base quantity > 0), save_last_buy_date has been called.
C3_SaveAttemptedAfterRealFill ==
    (pc = "returned" /\ RealFill) => trade.save_called

C4_Witness == pc = "returned" /\ ZeroFill

C6_ExhaustionRaisesOneUrgent ==
    /\ (pc = "backoff" /\ slbd.attempt = max_retries - 1) =>
           (slbd.patches = max_retries /\ ~ENABLED SLBD_Retry /\ ENABLED SLBD_Exhausted)
    /\ (slbd.result = "raised" /\ creds = "ok") =>
           /\ pc \in {"except", "returned"}
           /\ slbd.patches = max_retries
           /\ slbdFailed
           /\ Cardinality(Criticals) = 1
           /\ \A i \in Criticals :
                alerts[i].sym = slbd.symbol_key /\ alerts[i].date = slbd.date_str
C6_Witness == pc = "except" /\ slbd.result = "raised" /\ creds = "ok" /\ slbd.posts = 0

\* C7: when update attempts 1 and 2 fail and attempt 3 succeeds,
\* save_last_buy_date returns without raising after exactly 3 attempts, having
\* slept 1 s and then 3 s, and no urgent notification is sent.
C7_ThirdAttemptSucceeds ==
    (slbd.result = "ok" /\ slbd.attempt = 2) =>
        /\ pc = "returned"
        /\ slbd.patches = 3
        /\ slbd.sleeps = <<1, 3>>
        /\ \A i \in DOMAIN alerts : alerts[i].kind = "success"
C7_Witness == pc = "returned" /\ slbd.result = "ok" /\ slbd.attempt = 2 /\ slbd.posts = 0

\* C8: a place-bid request is sent only from the step main enters after
\* resolving the asset's config from the map of this invocation and finding
\* both is_time_to_trade(TIME) true and LAST_BUY_DATE different from today.
C8_OrderOnlyWhenDueAndNotDone ==
    [][ (trade'.requests > trade.requests \/ bidCount' # bidCount \/ bidDay' # bidDay
           \/ (pc' = "place_bid" /\ pc # "place_bid"))
        => /\ IF pc' = "place_bid" THEN pc = "loop" ELSE pc = "place_bid"
           /\ config' = get_config_for_symbol(trade'.symbol, target_map)
           /\ config'.BUY_ENABLED
           /\ is_time_to_trade(config'.TIME, NowSec)
           /\ config'.LAST_BUY_DATE # TodayStr ]_vars
C8_Witness == pc = "order_info" /\ trade.accepted /\ cycles = 2

StripStamp(e) == [f \in DOMAIN e \ {"LAST_BUY_DATE"} |-> e[f]]
AsRead(e, r) ==
    IF IsDict(r) THEN StripStamp(e) = StripStamp(r)
    ELSE e = r \/ StripStamp(e) = DictEntry(r.SCALAR, DEFAULT_DCA_AMOUNT, TRUE)
C10_LastWriteWins ==
    [][ (pc \in {"patch", "post"} /\ pc' = "returned")
        => /\ store' = target_map
           /\ DOMAIN store' = DOMAIN readMap
           /\ \A k \in DOMAIN readMap : AsRead(store'[k], readMap[k]) ]_vars
C10_Witness ==
    /\ pc = "returned" /\ slbd.result = "ok"
    /\ bot.reply = "updated" /\ bot.req.field = "AMOUNT" /\ bot.req.amount = 600
    /\ IsDict(readMap["BTC_THB"]) /\ readMap["BTC_THB"].AMOUNT = 800
    /\ store["BTC_THB"].AMOUNT = 800

C12_CatchUpBuysLate ==
    (pc = "idle" /\ cycles > 0) =>
        \A a \in DOMAIN readMap :
            LET cfg == get_config_for_symbol(a, readMap)
            IN  (/\ cfg.BUY_ENABLED
                 /\ ParseOk(cfg.TIME)
                 /\ cfg.LAST_BUY_DATE # run.start.day
                 /\ Instants[run.start.i] >= TargetSecs(cfg.TIME) - 300)
                => a \in run.attempted

\* C13: a failure while one asset is processed leaves no sibling unprocessed:
\* when an invocation has ended, main's loop has taken up every asset of
\* symbols_to_process.
C13_SiblingsStillProcessed ==
    (pc = "idle" /\ cycles > 0) => idx >= Len(symbols_to_process)

\* C14: after a place-bid response whose error field is not 0, execute_trade
\* has sent exactly one place-bid request, does not call save_last_buy_date,
\* leaves the asset's LAST_BUY_DATE as it was in the map and in the store, and
\* has sent an error notification when it returns.
C14_VenueErrorAborts ==
    trade.exc = "venue_error" =>
        /\ pc \in {"except", "returned"}
        /\ trade.requests = 1
        /\ ~trade.accepted
        /\ ~trade.save_called
        /\ StampOf(target_map, trade.map_key) = config.LAST_BUY_DATE
        /\ StampOf(store, trade.map_key) = config.LAST_BUY_DATE
        /\ pc = "returned" => \E i \in DOMAIN alerts : alerts[i].kind = "failed"
C14_Witness == pc = "returned" /\ trade.exc = "venue_error"

PersistAlerts ==
    {i \in DOMAIN alerts :
        alerts[i].kind \in {"critical", "critical_no_token", "critical_no_repo"}}
C17_LegacyScalarConverted ==
    (/\ fn.name = "save_last_buy_date"
     /\ fn.args[2] \in DOMAIN fn.args[1]
     /\ ~IsDict(fn.args[1][fn.args[2]])) =>
        LET entry == fn.ret[fn.args[2]]
        IN  /\ IsDict(entry)
            /\ {"TIME", "LAST_BUY_DATE"} \subseteq DOMAIN entry
            /\ entry.TIME = fn.args[1][fn.args[2]].SCALAR
            /\ entry.LAST_BUY_DATE = fn.args[3]
C17_Witness ==
    /\ fn.name = "save_last_buy_date"
    /\ fn.args[2] = "BTC_THB"
    /\ "BTC_THB" \in DOMAIN fn.args[1]
    /\ fn.args[1]["BTC_THB"] = Scalar(<<21, 0>>)
    /\ fn.ret["BTC_THB"].TIME = <<21, 0>>

\* the entry get_config_for_symbol finds for the symbol of the last call
CallFound == FoundKey(fn.args[1], fn.args[2]) \in DOMAIN fn.args[2]
CallEntry == fn.args[2][FoundKey(fn.args[1], fn.args[2])]
ScalarDefaults ==
    /\ fn.ret.value.AMOUNT = DEFAULT_DCA_AMOUNT
    /\ fn.ret.value.BUY_ENABLED = TRUE
    /\ fn.ret.value.LAST_BUY_DATE = NoDate

\* C18: get_config_for_symbol on an entry that is a scalar returns the scalar
\* as TIME, the default AMOUNT, BUY_ENABLED true and no LAST_BUY_DATE.
C18_ScalarIsTimeOnly ==
    (fn.name = "get_config_for_symbol" /\ CallFound /\ ~IsDict(CallEntry)) =>
        /\ ~fn.ret.raised
        /\ fn.ret.value.TIME = CallEntry.SCALAR
        /\ ScalarDefaults

\* C18 as amended: the same for a scalar that is not the empty string; the
\* empty string resolves like a missing entry, TIME being the default time.
C18_NonEmptyScalarIsTimeOnly ==
    (fn.name = "get_config_for_symbol" /\ CallFound /\ ~IsDict(CallEntry)) =>
        /\ ~fn.ret.raised
        /\ fn.ret.value.TIME =
              (IF CallEntry.SCALAR # <<>> THEN CallEntry.SCALAR ELSE DEFAULT_TARGET_TIME)
        /\ ScalarDefaults
C18_Witness ==
    /\ fn.name = "get_config_for_symbol"
    /\ CallFound
    /\ CallEntry = Scalar(<<21, 0>>)
    /\ fn.ret.value.TIME = <<21, 0>>

\* the TIME an entry supplies
TimeOfEntry(e) ==
    IF ~Truthy(e) THEN DEFAULT_TARGET_TIME
    ELSE IF IsDict(e) THEN Get(e, "TIME", DEFAULT_TARGET_TIME) ELSE e.SCALAR

\* C19: get_config_for_symbol tries the identifier as given, then base +
\* "/USDT"; the first of the two present in the map supplies the entry and is
\* the KEY returned (the identifier itself when neither is present), and a
\* day-stamp written under KEY changes that entry and no other.
C19_LookupOrderAndKey ==
    (fn.name = "get_config_for_symbol" /\ ~fn.ret.raised) =>
        LET symbol_thb == fn.args[1]
            m == fn.args[2]
            alt == IF symbol_thb = "BTC_THB" THEN "BTC/USDT" ELSE "ETH/USDT"
            key == fn.ret.value.KEY
        IN  /\ symbol_thb \in DOMAIN m => key = symbol_thb
            /\ (symbol_thb \notin DOMAIN m /\ alt \in DOMAIN m) => key = alt
            /\ (symbol_thb \notin DOMAIN m /\ alt \notin DOMAIN m) => key = symbol_thb
            /\ key \in DOMAIN m => fn.ret.value.TIME = TimeOfEntry(m[key])
            /\ key \in DOMAIN m =>
                  LET written == UpdateLocal(m, key, 1)
                  IN  /\ DOMAIN written = DOMAIN m
                      /\ \A k \in DOMAIN m \ {key} : written[k] = m[k]
                      /\ written[key].LAST_BUY_DATE = 1
C19_Witness ==
    /\ fn.name = "get_config_for_symbol"
    /\ fn.args[1] = "BTC_THB"
    /\ DOMAIN fn.args[2] = {"BTC/USDT"}
    /\ fn.args[2]["BTC/USDT"] = Scalar(<<21, 0>>)
    /\ fn.ret.value.KEY = "BTC/USDT"
    /\ fn.ret.value.TIME = <<21, 0>>

\* C20: get_config_for_symbol returns a config for every identifier and every
\* map (entry missing, scalar, or structured with any field absent or
\* invalid) and never raises; a missing entry resolves to all defaults.
C20_ResolutionIsTotal ==
    fn.name = "get_config_for_symbol" =>
        /\ ~fn.ret.raised
        /\ ~CallFound =>
              fn.ret.value = [TIME |-> DEFAULT_TARGET_TIME, AMOUNT |-> DEFAULT_DCA_AMOUNT,
                              BUY_ENABLED |-> TRUE, LAST_BUY_DATE |-> NoDate,
                              KEY |-> fn.args[1]]

\* C21: the AMOUNT of every config that get_config_for_symbol returns is
\* greater than zero: an AMOUNT that is absent, zero, negative or invalid is
\* replaced by the default.
C21_AmountPositive ==
    (fn.name = "get_config_for_symbol" /\ ~fn.ret.raised) =>
        fn.ret.value.AMOUNT > 0

\* the sum of amount / rate over the first n fragments of a history
RECURSIVE QuotientSum(_, _)
QuotientSum(h, n) ==
    IF n = 0 THEN 0 ELSE QuotientSum(h, n - 1) + (h[n].amount \div h[n].rate)

\* C22: the received base quantity is the sum of amount / rate over exactly the
\* fragments whose rate is greater than zero; a fragment with a zero or negative
\* rate contributes nothing (and the reduction yields a number for it).
C22_ReceivedIsSumOverPositiveRates ==
    fn.name = "received_amt" =>
        LET positive == SelectSeq(fn.args[1], LAMBDA t : t.rate > 0)
        IN  fn.ret = QuotientSum(positive, Len(positive))
C22_Witness ==
    /\ fn.name = "received_amt"
    /\ Len(fn.args[1]) = 2
    /\ fn.args[1][1].rate <= 0
    /\ fn.args[1][2].rate > 0
    /\ fn.ret = 3

\* C23: the effective price of a trade is the filled quote amount divided by
\* the received base quantity when that quantity is positive, and is undefined,
\* a value other than zero, whenever the received quantity is zero.
C23_PriceUndefinedOnZeroFill ==
    trade.got_info =>
        /\ trade.received > 0 => trade.rate = trade.spent \div trade.received
        /\ trade.received = 0 => trade.rate # 0

\* C24: get_thb_usd_rate consults the secondary source only when the primary
\* yields no rate and returns 0 when both fail, and an FX result of 0 does not
\* stop execute_trade from notifying the trade and persisting the day-stamp.
C24_FxFailureNotFatal ==
    trade.fx_sources # <<>> =>
        /\ Len(trade.fx_sources) = 2 <=> trade.fx_sources[1] # "rate"
        /\ trade.fx_rate = 0 <=> (\A i \in DOMAIN trade.fx_sources : trade.fx_sources[i] # "rate")
        /\ (pc = "returned" /\ trade.fx_rate = 0) =>
              /\ trade.save_called
              /\ \E i \in DOMAIN alerts : alerts[i].kind = "success"

\* a value the update may take: a field of the three, a TIME of the form HH:MM
\* within 00:00-23:59, an AMOUNT within 20-1000, a BUY_ENABLED word
WellFormedUpdate(req) ==
    /\ req.field \in {"TIME", "AMOUNT", "BUY_ENABLED"}
    /\ req.field = "TIME" =>
          (Len(req.time) = 2 /\ req.time[1] \in 0..23 /\ req.time[2] \in 0..59)
    /\ req.field = "AMOUNT" =>
          (req.amount # NotANumber /\ req.amount >= 20 /\ req.amount <= 1000)
    /\ req.field = "BUY_ENABLED" => req.enabled \in TrueWords \cup FalseWords

\* C25: handle_update_dca writes to the store only after all validation has
\* passed: a field outside TIME, AMOUNT, BUY_ENABLED, a TIME not of the form
\* HH:MM within 00:00-23:59, an AMOUNT outside 20-1000, an unrecognised
\* BUY_ENABLED value, an unreadable or malformed map, a symbol not in the map
\* and an entry that is not structured each end with an error reply and no
\* write in flight.
C25_WriteOnlyAfterValidation ==
    (bot.handler = "update_dca" /\
        \/ ~WellFormedUpdate(bot.req)
        \/ ~storeExists
        \/ store = MalformedMap
        \/ NormSymbol(bot.req.symbol) \notin DOMAIN store
        \/ ~IsDict(store[NormSymbol(bot.req.symbol)]))
    => (bot.pc = "idle" /\ bot.reply = "error")

\* C26: a message of the bot itself, a message from another channel when
\* DISCORD_CHANNEL_ID is set, and a message from an unlisted user when
\* DISCORD_ALLOWED_USERS is set reach neither classify_intent nor a handler and
\* start no write of the store.
C26_RestrictionsBlockHandlers ==
    (bot.msg # NoMsg /\
        \/ bot.msg.author = ClientUser
        \/ (bot.CHANNEL_ID # "" /\ bot.msg.channel # bot.CHANNEL_ID)
        \/ (bot.ALLOWED_USERS # <<>> /\
               \A i \in DOMAIN bot.ALLOWED_USERS : bot.ALLOWED_USERS[i] # bot.msg.author))
    => /\ ~bot.classified
       /\ bot.handler = "none"
       /\ bot.pc = "idle"
       /\ bot.reply = "none"
C26_Witness ==
    /\ bot.ALLOWED_USERS = <<"alice">> /\ bot.CHANNEL_ID = "C1"
    /\ bot.msg.author = "mallory" /\ bot.msg.channel = "C1" /\ bot.msg.text = "cmd"
    /\ ~bot.classified

\* C27: in save_last_buy_date a retry is made only after a transport error or
\* a missing-resource (404) reply; a rejection of the update with another HTTP
\* status is fatal at once and is not followed by another attempt.
C27_RejectionNotRetried ==
    [][ (pc = "backoff" /\ slbd.last_error = "HTTP") => pc' # "patch" ]_vars

\* C28: after a missing-resource (404) reply to the update, a create request
\* with the same whole-map value is sent in the same attempt; a 201 reply ends
\* save_last_buy_date with success (the value is stored), any other reply
\* leaves the store alone and the attempt failed, and the retry or exhaustion
\* path follows as after any failed attempt.
C28_CreateAfterMissing ==
    [][ /\ (pc = "patch" /\ pc' = "post") =>
              (slbd'.attempt = slbd.attempt /\ slbd'.new_json = slbd.new_json /\ store' = store)
        /\ (pc = "post" /\ pc' # "post") =>
              /\ slbd'.posts = slbd.posts + 1
              /\ slbd'.attempt = slbd.attempt
              /\ pc' \in {"returned", "backoff"}
              /\ pc' = "returned" =>
                    (slbd'.result = "ok" /\ storeExists' /\ store' = slbd.new_json)
              /\ pc' = "backoff" =>
                    (slbd'.result = "none" /\ slbd'.last_error # "none" /\ store' = store)
        /\ (pc = "backoff" /\ pc' # "backoff") =>
              IF slbd.attempt < max_retries - 1
              THEN pc' = "patch" /\ slbd'.attempt = slbd.attempt + 1
              ELSE pc' = "except" ]_vars
C28_Witness ==
    /\ pc = "returned" /\ slbd.result = "ok"
    /\ slbd.posts = 2 /\ slbd.attempt = 1
    /\ store = slbd.new_json

\* the positions of save_last_buy_date and the number of its steps still
\* possible from a position in a given attempt
SavePcs == {"slbd", "patch", "post", "backoff"}
StepsLeft(p, s) ==
    CASE p = "slbd" -> 3 * max_retries + 1
      [] p = "patch" -> 3 * (max_retries - s.attempt)
      [] p = "post" -> 3 * (max_retries - s.attempt) - 1
      [] p = "backoff" -> 3 * (max_retries - s.attempt) - 2
      [] OTHER -> 0

\* C29: save_last_buy_date always terminates: it is never stuck, each of its
\* steps brings its end nearer, it sends at most 3 PATCH and at most 3 POST
\* requests, it ends by returning after a 204 or 201 reply or by raising, and
\* it has slept once per attempt that another attempt followed, never after
\* the last.
C29_SaveTerminates ==
    /\ [](pc \in SavePcs =>
            ENABLED (SLBD_Begin \/ SLBD_Patch \/ SLBD_Post \/ SLBD_Retry \/ SLBD_Exhausted))
    /\ [][ /\ (pc \in SavePcs /\ pc' # pc) =>
                  /\ StepsLeft(pc', slbd') < StepsLeft(pc, slbd)
                  /\ StepsLeft(pc', slbd') >= 0
                  /\ pc' \notin SavePcs =>
                        \/ pc' = "returned" /\ slbd'.result = "ok"
                        \/ pc' = "except" /\ slbd'.result = "raised"
            /\ slbd'.patches <= max_retries
            /\ slbd'.posts <= max_retries
            /\ slbd'.attempt <= max_retries - 1
            /\ slbd'.sleeps = SubSeq(retry_delays, 1, slbd'.attempt) ]_vars
C29_Witness ==
    /\ pc = "except" /\ slbd.result = "raised"
    /\ slbd.patches = 3 /\ slbd.posts = 3
    /\ slbd.sleeps = <<1, 3>>

\* C30: when the place-bid request fails (transport exception or venue
\* error) execute_trade has sent it once only and the in-memory map and the
\* store are as they were, and main, coming to that asset again on the same
\* day with no order accepted for it since, passes the guard and calls
\* execute_trade for it again.
C30_FailedPlacementIsRetriedNextRun ==
    [][ /\ (pc = "place_bid" /\ pc' = "except") =>
              /\ trade'.requests = 1 /\ ~trade'.accepted
              /\ target_map' = readMap /\ store' = store
              /\ StampOf(target_map', trade.map_key) # TodayStr
        /\ (trade.exc \in {"transport_error", "venue_error"} /\ pc \in {"except", "returned"}) =>
              (trade'.requests <= 1 /\ target_map' = readMap /\ store' = store)
        /\ (/\ pc = "loop" /\ idx <= Len(symbols_to_process)
            /\ failedDay[symbols_to_process[idx]] = TodayStr
            /\ bidDay[symbols_to_process[idx]] # TodayStr
            /\ <<pc, idx>>' # <<pc, idx>>)
           => (pc' = "place_bid" /\ trade'.symbol = symbols_to_process[idx]) ]_vars
C30_Witness ==
    /\ pc = "place_bid" /\ cycles = 2
    /\ failedDay[trade.symbol] = TodayStr
    /\ bidDay[trade.symbol] # TodayStr

C32_SpentIsFilledElseTotal ==
    fn.name = "spent_thb" =>
        LET order_data == fn.args[1]
            has_filled == "filled" \in DOMAIN order_data /\ order_data["filled"] # 0
        IN  /\ has_filled => fn.ret = order_data["filled"]
            /\ (~has_filled /\ "total" \in DOMAIN order_data) => fn.ret = order_data["total"]
C32_Witness ==
    /\ fn.name = "spent_thb"
    /\ DOMAIN fn.args[1] = {"filled", "total"}
    /\ fn.args[1]["filled"] = 100 /\ fn.args[1]["total"] = 150
    /\ fn.ret = 100

\* a step by which save_last_buy_date puts its value into the store
CycleWrites ==
    /\ pc \in {"patch", "post"}
    /\ slbd'.patches + slbd'.posts > slbd.patches + slbd.posts
    /\ storeExists'
    /\ store' = slbd.new_json

DisabledAssets ==
    {k \in DOMAIN readMap : IsDict(readMap[k]) /\ ~Get(readMap[k], "BUY_ENABLED", TRUE)}

\* C35: an asset whose structured entry has BUY_ENABLED false is never traded:
\* in a cycle that read that map the asset is not among the symbols the loop
\* walks, no place-bid request is sent for it and its entry in the map is not
\* modified, whatever the time and its LAST_BUY_DATE.
C35_DisabledNeverTraded ==
    \A k \in DisabledAssets :
        /\ \A i \in DOMAIN symbols_to_process : symbols_to_process[i] # k
        /\ k \notin run.attempted
        /\ trade.symbol # k
        /\ k \in DOMAIN target_map /\ target_map[k] = readMap[k]
C35_Witness ==
    /\ "ETH_THB" \in DisabledAssets
    /\ is_time_to_trade(readMap["ETH_THB"]["TIME"], NowSec)
    /\ StampOf(readMap, "ETH_THB") # TodayStr
    /\ "BTC_THB" \in run.attempted
    /\ pc = "loop" /\ idx > Len(symbols_to_process)

\* map after differs from map before in the entry of key only, and a
\* structured entry of key keeps its TIME, AMOUNT and BUY_ENABLED
OnlyStampChanged(before, after, key) ==
    /\ DOMAIN after = DOMAIN before \cup {key}
    /\ \A k \in DOMAIN before \ {key} : after[k] = before[k]
    /\ (key \in DOMAIN before /\ IsDict(before[key])) =>
          \A f \in {"TIME", "AMOUNT", "BUY_ENABLED"} :
              /\ f \in DOMAIN after[key] <=> f \in DOMAIN before[key]
              /\ f \in DOMAIN before[key] => after[key][f] = before[key][f]

\* C36: save_last_buy_date changes only the target asset's entry: every other
\* key, and TIME, AMOUNT and BUY_ENABLED of a target entry that is already
\* structured, are the same in the value written to the store as in the
\* in-memory map before the call.
C36_SaveChangesOnlyTarget ==
    [][ /\ (pc = "slbd" /\ pc' # "slbd") =>
              /\ OnlyStampChanged(target_map, target_map', slbd.symbol_key)
              /\ slbd'.new_json = target_map'
        /\ pc \in SavePcs \ {"slbd"} =>
              /\ target_map' = target_map
              /\ slbd'.new_json = target_map
        /\ CycleWrites => store' = target_map ]_vars
C36_Witness ==
    /\ pc = "returned" /\ slbd.result = "ok" /\ slbd.symbol_key = "BTC_THB"
    /\ IsDict(readMap["BTC_THB"]) /\ readMap["BTC_THB"]["AMOUNT"] = 800
    /\ StampOf(readMap, "BTC_THB") # slbd.date_str
    /\ storeExists
    /\ StampOf(store, "BTC_THB") = slbd.date_str
    /\ store["BTC_THB"]["AMOUNT"] = 800
    /\ store["ETH_THB"] = readMap["ETH_THB"]

\* C37: save_last_buy_date sets LAST_BUY_DATE in the shared in-memory map
\* before any store request and does not take it back on failure: when the
\* persist of an asset has exhausted its retries and the persist of a later
\* asset of the same invocation succeeds, the value written for the later
\* asset carries the LAST_BUY_DATE set for the earlier one.
C37_FailedStampRidesOnLaterWrite ==
    [][ /\ (pc = "slbd" /\ pc' # "slbd") =>
              /\ StampOf(target_map', slbd.symbol_key) = slbd.date_str
              /\ store' = store /\ slbd'.patches = 0 /\ slbd'.posts = 0
        /\ (CycleWrites /\ slbdFailed) =>
              \A i \in 1..(idx - 1) :
                  /\ StampOf(store', symbols_to_process[i]) \in run.start.day..TodayStr
                  /\ StampOf(store', symbols_to_process[i]) =
                         StampOf(target_map, symbols_to_process[i]) ]_vars
C37_Witness ==
    /\ pc = "returned" /\ slbd.result = "ok" /\ slbd.symbol_key = "ETH_THB"
    /\ slbdFailed /\ creds = "ok"
    /\ StampOf(readMap, "BTC_THB") = NoDate
    /\ storeExists
    /\ StampOf(store, "BTC_THB") = TodayStr

\* C38: with a store credential missing (no GIST_TOKEN or no
\* GITHUB_REPOSITORY) save_last_buy_date sends no request, sends exactly one
\* critical notification and raises; it never returns normally without a 204
\* or 201 reply.
C38_MissingCredentialRaises ==
    /\ (trade.save_called /\ pc # "slbd" /\ creds # "ok") =>
          /\ slbd.patches = 0 /\ slbd.posts = 0
          /\ slbd.result = "raised"
          /\ pc \in {"except", "returned"}
          /\ Cardinality(PersistAlerts) = 1
          /\ \A i \in PersistAlerts : alerts[i].kind = "critical_" \o creds
    /\ slbd.result = "ok" => (creds = "ok" /\ slbd.patches >= 1)
    /\ (trade.save_called /\ pc = "returned" /\ slbd.result # "ok") =>
          /\ slbd.result = "raised"
          /\ \E i \in DOMAIN alerts : alerts[i].kind = "failed"
C38_Witness ==
    /\ trade.save_called /\ pc = "except" /\ creds = "no_repo"
    /\ slbd.result = "raised" /\ slbd.patches = 0
    /\ Cardinality(PersistAlerts) = 1

\* C39: a successful handle_update_dca changes, relative to the map it
\* fetched, exactly the requested field of the one existing structured entry:
\* no key is added or removed, no other entry changes, and LAST_BUY_DATE of
\* every entry in the value written equals the value read.
C39_UpdateChangesOneField ==
    [][ (bot.pc = "fetched" /\ bot'.reply = "updated") =>
            LET symbol == NormSymbol(bot.req.symbol)
                field == bot.req.field
            IN  /\ DOMAIN store' = DOMAIN store
                /\ symbol \in DOMAIN store /\ IsDict(store[symbol])
                /\ \A k \in DOMAIN store \ {symbol} : store'[k] = store[k]
                /\ DOMAIN store'[symbol] = DOMAIN store[symbol] \cup {field}
                /\ \A f \in DOMAIN store[symbol] \ {field} :
                       store'[symbol][f] = store[symbol][f]
                /\ \A k \in DOMAIN store : StampOf(store', k) = StampOf(store, k) ]_vars
C39_Witness ==
    /\ bot.handler = "update_dca" /\ bot.reply = "updated"
    /\ bot.req.field = "AMOUNT" /\ NormSymbol(bot.req.symbol) = "BTC_THB"
    /\ store["BTC_THB"]["AMOUNT"] = ToFloat(bot.req.amount)
    /\ store["BTC_THB"]["AMOUNT"] # 800
    /\ StampOf(store, "BTC_THB") = 1

====
